---- MODULE Spec2Model ----
(***************************************************************************)
(* The capture overlay of the Screen Coordinate Tool (src/main.py):        *)
(* OverlayWindow's state and event handlers, and the part of MainWindow    *)
(* (the host document tree) the overlay calls into.                        *)
(*                                                                         *)
(* Representation.                                                         *)
(*  - A QPoint is a record [x, y].  ruler_start is <<>> for Python's None  *)
(*    and <<p>> for a QPoint p.                                            *)
(*  - Python objects are cells of `heap`, a function from object identity  *)
(*    to the object's fields; session_items and tree hold identities, as   *)
(*    the Python lists hold references to one shared object.               *)
(*  - A non-negative real r (a distance) is represented exactly by r*r as  *)
(*    a fraction <<num, den>>, den > 0.  math.sqrt(s) is then the          *)
(*    representation of s itself, int(r) is the integer square root and    *)
(*    r1 < r2 is the comparison of the fractions.  The one float whose     *)
(*    rounding can decide a comparison, the hit test's distance to the     *)
(*    inside of a segment, carries the sign of its rounding error.         *)
(*  - Times are whole seconds, measured from the present instant: `now`   *)
(*    is 0 and an instant t is kept as t - now, so the passing of a second *)
(*    (Advance) lowers every stored instant by one.  Only differences of   *)
(*    instants are ever compared by the program.  The timestamp field of   *)
(*    an item (never read by the overlay) is left out.                     *)
(*  - list indices are Python's: selected_item_index is -1 or 0..n-1 and   *)
(*    refers to session_items[selected_item_index + 1] here.               *)
(***************************************************************************)
EXTENDS Integers, Sequences, FiniteSets, TLC

VARIABLES
    cursor_pos,            \* OverlayWindow.cursor_pos
    corner_pos,            \* OverlayWindow.corner_pos, 0..3
    capture_mode,          \* "normal", "ruler", "edit"
    ruler_start,           \* <<>> (None) or <<QPoint>>
    shift_pressed,
    show_help,
    notifications,         \* sequence of <<text, expiry>>
    session_items,         \* sequence of object identities
    selected_item_index,   \* -1 or a Python index into session_items
    tree,                  \* MainWindow.tree: top-level items, by identity
    heap,                  \* identity -> fields of the CoordinateItem / MeasurementItem
    next_id,               \* number of objects created so far
    overlay_visible,       \* the overlay is shown (receives events)
    main_visible,          \* the main window is shown
    keyboard_grabbed,      \* the overlay holds the keyboard grab
    prompt,                \* <<>> or <<identity>>: QInputDialog.getText is open
    last                   \* history: <<press>> when the last press or key handled was
                           \* a mouse press, else <<>>

vars == << cursor_pos, corner_pos, capture_mode, ruler_start, shift_pressed,
           show_help, notifications, session_items, selected_item_index,
           tree, heap, next_id, overlay_visible, main_visible,
           keyboard_grabbed, prompt, last >>

-----------------------------------------------------------------------------
(* Bounds of the model *)

\* objects the host creates in one run of the model
MaxItems == 2
\* entries the notification list may hold before a handler that pushes is held back
MaxNotes == 1

Pt(x, y) == [x |-> x, y |-> y]

\* positions of pointer events in the overlay state machine: the null point, and
\* a point from which the ruler snaps to the horizontal
Positions == { Pt(0, 0), Pt(100, 3) }

Buttons == { "Left", "Right", "Middle" }

\* keys pressed in the overlay state machine ("A" stands for any unbound key)
Keys == { "Shift", "E", "Escape", "Q", "Delete", "R", "A" }

\* keys released
ReleasedKeys == { "Shift", "A" }

\* texts the user may type into the rename prompt
Texts == { "", "n" }

\* seconds that pass in one step of the clock
Steps == { 2 }

-----------------------------------------------------------------------------
(* Reals of the form sqrt(num/den) *)

RECURSIVE Gcd(_, _)
Gcd(a, b) == IF b = 0 THEN a ELSE Gcd(b, a % b)

Abs(n) == IF n < 0 THEN -n ELSE n

\* the fraction n/d (d > 0, n >= 0) in lowest terms
Frac(n, d) == LET g == Gcd(n, d) IN << n \div g, d \div g >>

\* math.sqrt(n) for an integer n >= 0
Sqrt(n) == << n, 1 >>

\* r1 < r2
Less(r1, r2) == r1[1] * r2[2] < r2[1] * r1[2]

\* int(r): truncation of a non-negative real
int(r) == LET n == r[1] \div r[2]
          IN  CHOOSE k \in 0..n : k * k <= n /\ (k + 1) * (k + 1) > n

-----------------------------------------------------------------------------
(* Items *)

CoordinateItem(x, y) ==
    [ type |-> "coordinate", x |-> x, y |-> y,
      name |-> "Point (" \o ToString(x) \o ", " \o ToString(y) \o ")" ]

MeasurementItem(x1, y1, x2, y2, distance, auto_aligned) ==
    [ type |-> "measurement", x1 |-> x1, y1 |-> y1, x2 |-> x2, y2 |-> y2,
      distance |-> distance,
      name |-> "Measurement " \o ToString(int(distance)) \o "px",
      auto_aligned |-> auto_aligned ]

-----------------------------------------------------------------------------
(* Notifications *)

\* datetime.now().timestamp(): the present instant is the origin of the time axis
now == 0

\* add_notification: the list after the push
add_notification(text) == Append(notifications, << text, now + 2 >>)

\* draw_notifications with a slip: an entry is dropped in its last second
draw_notifications_DropsEarly ==
    LET Live(n) == n[2] > now + 1 IN SelectSeq(notifications, Live)

\* draw_notifications: the list after the prune
draw_notifications ==
    LET Live(n) == n[2] > now IN SelectSeq(notifications, Live)

\* the model's caps on the notification list and on the objects created
CanNotify == Len(notifications) < MaxNotes
CanCreate == next_id < MaxItems

-----------------------------------------------------------------------------
(* MainWindow: the host document *)

\* the heap restricted to the objects still referenced
Collect(h, live) == [ i \in (DOMAIN h) \cap live |-> h[i] ]

Range(s) == { s[i] : i \in DOMAIN s }

\* s without its element at (1-based) position i
RemoveAt(s, i) == SubSeq(s, 1, i - 1) \o SubSeq(s, i + 1, Len(s))

\* FindInTree with a slip: the objects are compared by their fields
FindInTree_ByFields(model_item) ==
    IF \E i \in DOMAIN tree : heap[tree[i]] = heap[model_item]
    THEN CHOOSE i \in DOMAIN tree :
            /\ heap[tree[i]] = heap[model_item]
            /\ \A j \in 1..(i - 1) : heap[tree[j]] # heap[model_item]
    ELSE 0

\* the first tree position whose data is the object, or 0
FindInTree(model_item) ==
    IF \E i \in DOMAIN tree : tree[i] = model_item
    THEN CHOOSE i \in DOMAIN tree :
            tree[i] = model_item /\ \A j \in 1..(i - 1) : tree[j] # model_item
    ELSE 0

\* remove_item_by_reference: what it returns
remove_item_by_reference(model_item) == FindInTree(model_item) # 0

\* remove_item_by_reference: the tree it leaves
TreeAfterRemove(model_item) ==
    IF FindInTree(model_item) # 0 THEN RemoveAt(tree, FindInTree(model_item)) ELSE tree

\* rename_item_by_reference: what it returns
rename_item_by_reference(model_item) == FindInTree(model_item) # 0

\* HeapAfterRename with a slip: the renamed object is built anew at the origin
HeapAfterRename_Rebuilds(model_item, new_name) ==
    IF FindInTree(model_item) # 0
    THEN [ heap EXCEPT ![model_item] = [ CoordinateItem(0, 0) EXCEPT !.name = new_name ] ]
    ELSE heap

\* rename_item_by_reference: the heap it leaves
HeapAfterRename(model_item, new_name) ==
    IF FindInTree(model_item) # 0
    THEN [ heap EXCEPT ![model_item].name = new_name ]
    ELSE heap

-----------------------------------------------------------------------------
(* OverlayWindow: geometry *)

\* QPoint.__bool__: a QPoint is true unless it is null, that is (0, 0);
\* None is false
Truthy(p) == p # <<>> /\ ~(p[1].x = 0 /\ p[1].y = 0)

\* SnapAxis with a slip: the comparison is not strict
SnapAxis_NotStrict(start, end, shift) ==
    IF ~shift
    THEN LET dx == Abs(end.x - start.x)
             dy == Abs(end.y - start.y)
         IN  IF dx >= dy * 10 THEN Pt(end.x, start.y)
             ELSE IF dy >= dx * 10 THEN Pt(start.x, end.y)
             ELSE end
    ELSE end

\* finish_ruler: the end point after the axis snap
SnapAxis(start, end, shift) ==
    IF ~shift
    THEN LET dx == Abs(end.x - start.x)
             dy == Abs(end.y - start.y)
         IN  IF dx > dy * 10 THEN Pt(end.x, start.y)
             ELSE IF dy > dx * 10 THEN Pt(start.x, end.y)
             ELSE end
    ELSE end

\* finish_ruler: dist
RulerDistance(start, end) ==
    Sqrt((end.x - start.x) * (end.x - start.x) + (end.y - start.y) * (end.y - start.y))

\* SegmentDistance with a slip: t is not clamped, the distance is that to the
\* whole line through the end points
SegmentDistance_Unclamped(px, py, x1, y1, x2, y2) ==
    LET l2    == (x1 - x2) * (x1 - x2) + (y1 - y2) * (y1 - y2)
        cross == (px - x1) * (y2 - y1) - (py - y1) * (x2 - x1)
    IN  IF l2 = 0
        THEN Sqrt((px - x1) * (px - x1) + (py - y1) * (py - y1))
        ELSE Frac(cross * cross, l2)

\* finish_ruler: the MeasurementItem it hands to MainWindow.add_measurement
RulerItem(start, end_pos, shift) ==
    LET end == SnapAxis(start, end_pos, shift)
    IN  MeasurementItem(start.x, start.y, end.x, end.y, RulerDistance(start, end),
                        end # end_pos)

\* select_nearest_item: distance from (px, py) to the segment of a MeasurementItem.
\* With t strictly between 0 and 1 the projection is the foot of the perpendicular,
\* whose squared distance (px - proj_x)^2 + (py - proj_y)^2 equals cross^2 / l2 for
\* cross = (px - x1)(y2 - y1) - (py - y1)(x2 - x1); that form keeps the integers small.
SegmentDistance(px, py, x1, y1, x2, y2) ==
    LET l2 == (x1 - x2) * (x1 - x2) + (y1 - y2) * (y1 - y2)
    IN  IF l2 = 0
        THEN Sqrt((px - x1) * (px - x1) + (py - y1) * (py - y1))
        ELSE LET dot == (px - x1) * (x2 - x1) + (py - y1) * (y2 - y1)
                 \* t = max(0, min(1, dot / l2)), as a fraction
                 t  == IF dot <= 0 THEN << 0, 1 >>
                       ELSE IF dot >= l2 THEN << 1, 1 >>
                       ELSE Frac(dot, l2)
                 cross == (px - x1) * (y2 - y1) - (py - y1) * (x2 - x1)
             IN  IF t = << 0, 1 >>
                 THEN Sqrt((px - x1) * (px - x1) + (py - y1) * (py - y1))
                 ELSE IF t = << 1, 1 >>
                 THEN Sqrt((px - x2) * (px - x2) + (py - y2) * (py - y2))
                 ELSE Frac(cross * cross, l2)

\* n is a power of two
RECURSIVE Dyadic(_)
Dyadic(n) == n = 1 \/ (n % 2 = 0 /\ Dyadic(n \div 2))

\* select_nearest_item: the signs the rounding error of the float d may have for a
\* MeasurementItem.  t = dot / l2 is a float division: when the quotient, kept
\* strictly between 0 and 1, is not a binary fraction it is rounded, and proj_x,
\* proj_y and d inherit an error of either sign.  In every other case the operands
\* are integers and sqrt is correctly rounded, so that d compares as the exact value.
SegmentRounding(px, py, x1, y1, x2, y2) ==
    LET l2  == (x1 - x2) * (x1 - x2) + (y1 - y2) * (y1 - y2)
        dot == (px - x1) * (x2 - x1) + (py - y1) * (y2 - y1)
    IN  IF l2 # 0 /\ 0 < dot /\ dot < l2 /\ ~Dyadic(Frac(dot, l2)[2])
        THEN { -1, 0, 1 }
        ELSE { 0 }

\* select_nearest_item: d for one item
ItemDistance(pos, item) ==
    IF item.type = "coordinate"
    THEN Sqrt((pos.x - item.x) * (pos.x - item.x) + (pos.y - item.y) * (pos.y - item.y))
    ELSE IF item.type = "measurement"
    THEN SegmentDistance(pos.x, pos.y, item.x1, item.y1, item.x2, item.y2)
    ELSE Sqrt(1000 * 1000)

\* select_nearest_item: the signs the rounding error of d may have for one item
ItemRounding(pos, item) ==
    IF item.type = "measurement"
    THEN SegmentRounding(pos.x, pos.y, item.x1, item.y1, item.x2, item.y2)
    ELSE { 0 }

\* the rounding errors one run of the loop may meet: a sign for every session
\* item, the same for items of the same geometry (the arithmetic is deterministic)
Roundings(pos) ==
    LET signs == [ i \in DOMAIN session_items |->
                      ItemRounding(pos, heap[session_items[i]]) ]
        exact == \A i \in DOMAIN session_items : signs[i] = { 0 }
    IN  IF exact
        THEN { [ i \in DOMAIN session_items |-> 0 ] }
        ELSE { err \in [ DOMAIN session_items -> { -1, 0, 1 } ] :
                 \A i \in DOMAIN session_items :
                     /\ err[i] \in signs[i]
                     /\ \A j \in DOMAIN session_items :
                            heap[session_items[i]] = heap[session_items[j]]
                                => err[i] = err[j] }

\* d1 < d2 for floats of exact values d1, d2 and rounding errors of signs e1, e2:
\* the errors are far smaller than the gap between two different exact values
FloatLess(d1, e1, d2, e2) == Less(d1, d2) \/ (d1 = d2 /\ e1 < e2)

\* detection radius in pixels
limit == 20

\* select_nearest_item: the loop from index i (Python index) on
RECURSIVE ScanItems(_, _, _, _, _, _)
ScanItems(pos, err, i, min_dist, min_err, closest_idx) ==
    IF i >= Len(session_items) THEN closest_idx
    ELSE LET d == ItemDistance(pos, heap[session_items[i + 1]])
         IN  IF FloatLess(d, err[i + 1], min_dist, min_err)
             THEN ScanItems(pos, err, i + 1, d, err[i + 1], i)
             ELSE ScanItems(pos, err, i + 1, min_dist, min_err, closest_idx)

\* select_nearest_item with a slip: a miss keeps the selection
select_nearest_item_KeepsOnMiss(pos, err) ==
    IF ScanItems(pos, err, 0, Sqrt(limit * limit), 0, -1) = -1
    THEN selected_item_index
    ELSE ScanItems(pos, err, 0, Sqrt(limit * limit), 0, -1)

\* select_nearest_item: the index it stores in selected_item_index
select_nearest_item(pos, err) == ScanItems(pos, err, 0, Sqrt(limit * limit), 0, -1)

-----------------------------------------------------------------------------
(* OverlayWindow: event handlers *)

\* the overlay receives input: it is shown and no modal prompt is open
Receiving == overlay_visible /\ prompt = <<>>

\* the history record of a mouse press: the event, and the mode and the selection
\* it found
Press(button, pos) ==
    << [ button |-> button, pos |-> pos,
         mode |-> capture_mode, sel |-> selected_item_index ] >>

host_vars    == << tree, heap, next_id >>
window_vars  == << overlay_visible, main_visible, keyboard_grabbed, prompt >>
hud_vars     == << cursor_pos, corner_pos, shift_pressed, show_help >>

\* mouseMoveEvent
mouseMoveEvent(pos) ==
    /\ Receiving
    /\ cursor_pos' = pos
    /\ UNCHANGED << corner_pos, capture_mode, ruler_start, shift_pressed, show_help,
                    notifications, session_items, selected_item_index,
                    host_vars, window_vars, last >>

\* MainWindow.add_coordinate / add_measurement followed by session_items.append
AppendItem(item) ==
    /\ heap' = (next_id :> item) @@ heap
    /\ tree' = Append(tree, next_id)
    /\ next_id' = next_id + 1
    /\ session_items' = Append(session_items, next_id)

\* finish_ruler with a slip: the anchor is left in place
finish_ruler_KeepsAnchor(end_pos) ==
    \/ /\ ~Truthy(ruler_start)
       /\ UNCHANGED << capture_mode, ruler_start, notifications, session_items, host_vars >>
    \/ /\ Truthy(ruler_start)
       /\ CanCreate /\ CanNotify
       /\ AppendItem(RulerItem(ruler_start[1], end_pos, shift_pressed))
       /\ notifications' = add_notification(
              "Measurement: "
                  \o ToString(int(RulerItem(ruler_start[1], end_pos, shift_pressed).distance))
                  \o "px")
       /\ capture_mode' = "normal"
       /\ UNCHANGED ruler_start

\* finish_ruler
finish_ruler(end_pos) ==
    \/ /\ ~Truthy(ruler_start)
       /\ UNCHANGED << capture_mode, ruler_start, notifications, session_items, host_vars >>
    \/ /\ Truthy(ruler_start)
       /\ CanCreate /\ CanNotify
       /\ AppendItem(RulerItem(ruler_start[1], end_pos, shift_pressed))
       /\ notifications' = add_notification(
              "Measurement: "
                  \o ToString(int(RulerItem(ruler_start[1], end_pos, shift_pressed).distance))
                  \o "px")
       /\ capture_mode' = "normal"
       /\ ruler_start' = <<>>

\* capture_coordinate with a slip: the item is placed at the click, not at cursor_pos
capture_coordinate_AtClick(pos) ==
    /\ CanCreate /\ CanNotify
    /\ AppendItem(CoordinateItem(pos.x, pos.y))
    /\ notifications' = add_notification(
           "Captured: " \o ToString(cursor_pos.x) \o ", " \o ToString(cursor_pos.y))

\* mousePressEvent, left button in normal mode; pos is event.pos()
capture_coordinate(pos) ==
    /\ CanCreate /\ CanNotify
    /\ AppendItem(CoordinateItem(cursor_pos.x, cursor_pos.y))
    /\ notifications' = add_notification(
           "Captured: " \o ToString(cursor_pos.x) \o ", " \o ToString(cursor_pos.y))

\* mousePressEvent
mousePressEvent(button, pos) ==
    /\ Receiving
    /\ last' = Press(button, pos)
    /\ UNCHANGED << hud_vars, window_vars >>
    /\ \/ /\ capture_mode = "edit"
          /\ button = "Left"
          /\ \E err \in Roundings(pos) :
                selected_item_index' = select_nearest_item(pos, err)
          /\ UNCHANGED << capture_mode, ruler_start, notifications, session_items,
                          host_vars >>
       \/ /\ capture_mode = "edit"
          /\ button # "Left"
          /\ UNCHANGED << capture_mode, ruler_start, notifications, session_items,
                          selected_item_index, host_vars >>
       \/ /\ capture_mode = "normal"
          /\ button = "Left"
          /\ capture_coordinate(pos)
          /\ UNCHANGED << capture_mode, ruler_start, selected_item_index >>
       \/ /\ capture_mode = "normal"
          /\ button = "Right"
          /\ CanNotify
          /\ capture_mode' = "ruler"
          /\ ruler_start' = << pos >>
          /\ notifications' = add_notification("Ruler Mode: Click to end")
          /\ UNCHANGED << session_items, selected_item_index, host_vars >>
       \/ /\ capture_mode = "ruler"
          /\ button \in { "Left", "Right" }
          /\ finish_ruler(pos)
          /\ UNCHANGED selected_item_index
       \/ /\ capture_mode # "edit"
          /\ button \notin { "Left", "Right" }
          /\ UNCHANGED << capture_mode, ruler_start, notifications, session_items,
                          selected_item_index, host_vars >>

\* delete_current_selection with a slip: the host's answer is not looked at
delete_current_selection_IgnoresHost ==
    LET item == session_items[selected_item_index + 1]
    IN  /\ CanNotify
        /\ tree' = TreeAfterRemove(item)
        /\ session_items' = RemoveAt(session_items, selected_item_index + 1)
        /\ heap' = Collect(heap, Range(tree') \cup Range(session_items'))
        /\ selected_item_index' = -1
        /\ notifications' = add_notification("Item Deleted")

\* delete_current_selection with a slip: the selection is kept
delete_current_selection_KeepsSelection ==
    LET item == session_items[selected_item_index + 1]
    IN  \/ /\ remove_item_by_reference(item)
           /\ CanNotify
           /\ tree' = TreeAfterRemove(item)
           /\ session_items' = RemoveAt(session_items, selected_item_index + 1)
           /\ heap' = Collect(heap, Range(tree') \cup Range(session_items'))
           /\ selected_item_index' = selected_item_index
           /\ notifications' = add_notification("Item Deleted")
        \/ /\ ~remove_item_by_reference(item)
           /\ UNCHANGED << tree, session_items, heap, selected_item_index, notifications >>

\* delete_current_selection with a slip: the session list keeps the entry
delete_current_selection_KeepsEntry ==
    LET item == session_items[selected_item_index + 1]
    IN  \/ /\ remove_item_by_reference(item)
           /\ CanNotify
           /\ tree' = TreeAfterRemove(item)
           /\ session_items' = session_items
           /\ heap' = Collect(heap, Range(tree') \cup Range(session_items'))
           /\ selected_item_index' = -1
           /\ notifications' = add_notification("Item Deleted")
        \/ /\ ~remove_item_by_reference(item)
           /\ UNCHANGED << tree, session_items, heap, selected_item_index, notifications >>

\* delete_current_selection
delete_current_selection ==
    LET item == session_items[selected_item_index + 1]
    IN  \/ /\ remove_item_by_reference(item)
           /\ CanNotify
           /\ tree' = TreeAfterRemove(item)
           /\ session_items' = RemoveAt(session_items, selected_item_index + 1)
           /\ heap' = Collect(heap, Range(tree') \cup Range(session_items'))
           /\ selected_item_index' = -1
           /\ notifications' = add_notification("Item Deleted")
        \/ /\ ~remove_item_by_reference(item)
           /\ UNCHANGED << tree, session_items, heap, selected_item_index, notifications >>

\* rename_current_selection, up to the call of QInputDialog.getText
rename_current_selection ==
    /\ prompt' = << session_items[selected_item_index + 1] >>
    /\ keyboard_grabbed' = FALSE

\* PromptReturns with a slip: the text is applied even when the prompt is cancelled
PromptReturns_IgnoresCancel(text, ok) ==
    /\ overlay_visible
    /\ prompt # <<>>
    /\ prompt' = <<>>
    /\ keyboard_grabbed' = TRUE
    /\ \/ /\ text # ""
          /\ CanNotify
          /\ heap' = HeapAfterRename(prompt[1], text)
          /\ notifications' = add_notification("Item Renamed")
       \/ /\ text = ""
          /\ UNCHANGED << heap, notifications >>
    /\ UNCHANGED << hud_vars, capture_mode, ruler_start, session_items,
                    selected_item_index, tree, next_id, overlay_visible,
                    main_visible, last >>

\* PromptReturns with a slip: the keyboard is grabbed again only after a
\* confirmation
PromptReturns_GrabsOnConfirm(text, ok) ==
    /\ overlay_visible
    /\ prompt # <<>>
    /\ prompt' = <<>>
    /\ keyboard_grabbed' = ok
    /\ \/ /\ ok /\ text # ""
          /\ CanNotify
          /\ heap' = HeapAfterRename(prompt[1], text)
          /\ notifications' = add_notification("Item Renamed")
       \/ /\ ~(ok /\ text # "")
          /\ UNCHANGED << heap, notifications >>
    /\ UNCHANGED << hud_vars, capture_mode, ruler_start, session_items,
                    selected_item_index, tree, next_id, overlay_visible,
                    main_visible, last >>

\* rename_current_selection, from the return of QInputDialog.getText
PromptReturns(text, ok) ==
    /\ overlay_visible
    /\ prompt # <<>>
    /\ prompt' = <<>>
    /\ keyboard_grabbed' = TRUE
    /\ \/ /\ ok /\ text # ""
          /\ CanNotify
          /\ heap' = HeapAfterRename(prompt[1], text)
          /\ notifications' = add_notification("Item Renamed")
       \/ /\ ~(ok /\ text # "")
          /\ UNCHANGED << heap, notifications >>
    /\ UNCHANGED << hud_vars, capture_mode, ruler_start, session_items,
                    selected_item_index, tree, next_id, overlay_visible,
                    main_visible, last >>

\* key_E with a slip: entering Edit leaves the ruler's anchor in place
key_E_KeepsAnchor ==
    \/ /\ capture_mode = "edit"
       /\ CanNotify
       /\ capture_mode' = "normal"
       /\ selected_item_index' = -1
       /\ notifications' = add_notification("Exited Edit Mode")
       /\ UNCHANGED << hud_vars, ruler_start, session_items, tree, heap, window_vars >>
    \/ /\ capture_mode # "edit"
       /\ CanNotify
       /\ capture_mode' = "edit"
       /\ notifications' = add_notification("Edit Mode: Click item to select")
       /\ UNCHANGED << hud_vars, ruler_start, session_items, selected_item_index, tree,
                       heap, window_vars >>

\* key_E with a slip: leaving Edit keeps the selection
key_E_KeepsSelection ==
    \/ /\ capture_mode = "edit"
       /\ CanNotify
       /\ capture_mode' = "normal"
       /\ notifications' = add_notification("Exited Edit Mode")
       /\ UNCHANGED << hud_vars, ruler_start, session_items, selected_item_index,
                       tree, heap, window_vars >>
    \/ /\ capture_mode # "edit"
       /\ CanNotify
       /\ capture_mode' = "edit"
       /\ ruler_start' = <<>>
       /\ notifications' = add_notification("Edit Mode: Click item to select")
       /\ UNCHANGED << hud_vars, session_items, selected_item_index, tree, heap,
                       window_vars >>

\* keyPressEvent, key E
key_E ==
    \/ /\ capture_mode = "edit"
       /\ CanNotify
       /\ capture_mode' = "normal"
       /\ selected_item_index' = -1
       /\ notifications' = add_notification("Exited Edit Mode")
       /\ UNCHANGED << hud_vars, ruler_start, session_items, tree, heap, window_vars >>
    \/ /\ capture_mode # "edit"
       /\ CanNotify
       /\ capture_mode' = "edit"
       /\ ruler_start' = <<>>
       /\ notifications' = add_notification("Edit Mode: Click item to select")
       /\ UNCHANGED << hud_vars, session_items, selected_item_index, tree, heap,
                       window_vars >>

\* key_Escape with a slip: pressed in Edit it terminates the session as well
key_Escape_ClosesInEdit ==
    \/ /\ capture_mode = "ruler"
       /\ CanNotify
       /\ capture_mode' = "normal"
       /\ ruler_start' = <<>>
       /\ notifications' = add_notification("Ruler Cancelled")
       /\ UNCHANGED << hud_vars, session_items, selected_item_index, tree, heap,
                       window_vars >>
    \/ /\ capture_mode = "edit"
       /\ capture_mode' = "normal"
       /\ selected_item_index' = -1
       /\ overlay_visible' = FALSE
       /\ main_visible' = TRUE
       /\ UNCHANGED << hud_vars, ruler_start, notifications, session_items, tree, heap,
                       keyboard_grabbed, prompt >>
    \/ /\ capture_mode \notin { "ruler", "edit" }
       /\ overlay_visible' = FALSE
       /\ main_visible' = TRUE
       /\ UNCHANGED << hud_vars, capture_mode, ruler_start, notifications, session_items,
                       selected_item_index, tree, heap, keyboard_grabbed, prompt >>

\* key_Escape with a slip: cancelling the ruler forgets to clear the anchor
key_Escape_KeepsAnchor ==
    \/ /\ capture_mode = "ruler"
       /\ CanNotify
       /\ capture_mode' = "normal"
       /\ notifications' = add_notification("Ruler Cancelled")
       /\ UNCHANGED << hud_vars, ruler_start, session_items, selected_item_index, tree,
                       heap, window_vars >>
    \/ /\ capture_mode = "edit"
       /\ capture_mode' = "normal"
       /\ selected_item_index' = -1
       /\ UNCHANGED << hud_vars, ruler_start, notifications, session_items, tree, heap,
                       window_vars >>
    \/ /\ capture_mode \notin { "ruler", "edit" }
       /\ overlay_visible' = FALSE
       /\ main_visible' = TRUE
       /\ UNCHANGED << hud_vars, capture_mode, ruler_start, notifications, session_items,
                       selected_item_index, tree, heap, keyboard_grabbed, prompt >>

\* keyPressEvent, keys Escape and Q.  In Normal: self.close() hides the overlay and
\* the main window is shown; releaseKeyboard is not called, the grab is as it was.
key_Escape ==
    \/ /\ capture_mode = "ruler"
       /\ CanNotify
       /\ capture_mode' = "normal"
       /\ ruler_start' = <<>>
       /\ notifications' = add_notification("Ruler Cancelled")
       /\ UNCHANGED << hud_vars, session_items, selected_item_index, tree, heap,
                       window_vars >>
    \/ /\ capture_mode = "edit"
       /\ capture_mode' = "normal"
       /\ selected_item_index' = -1
       /\ UNCHANGED << hud_vars, ruler_start, notifications, session_items, tree, heap,
                       window_vars >>
    \/ /\ capture_mode \notin { "ruler", "edit" }
       /\ overlay_visible' = FALSE
       /\ main_visible' = TRUE
       /\ UNCHANGED << hud_vars, capture_mode, ruler_start, notifications, session_items,
                       selected_item_index, tree, heap, keyboard_grabbed, prompt >>

\* keyPressEvent
keyPressEvent(key) ==
    /\ Receiving
    /\ last' = <<>>
    /\ UNCHANGED << cursor_pos, next_id >>
    /\ \/ /\ key = "Shift"
          /\ shift_pressed' = TRUE
          /\ UNCHANGED << corner_pos, capture_mode, ruler_start, show_help, notifications,
                          session_items, selected_item_index, tree, heap, window_vars >>
       \/ /\ key = "E"
          /\ key_E
       \/ /\ key \in { "Escape", "Q" }
          /\ key_Escape
       \/ /\ key = "Space"
          /\ corner_pos' = (corner_pos + 1) % 4
          /\ UNCHANGED << shift_pressed, show_help, capture_mode, ruler_start,
                          notifications, session_items, selected_item_index, tree, heap,
                          window_vars >>
       \/ /\ key = "H"
          /\ show_help' = ~show_help
          /\ UNCHANGED << shift_pressed, corner_pos, capture_mode, ruler_start,
                          notifications, session_items, selected_item_index, tree, heap,
                          window_vars >>
       \/ /\ key = "Delete"
          /\ capture_mode = "edit" /\ selected_item_index # -1
          /\ delete_current_selection
          /\ UNCHANGED << hud_vars, capture_mode, ruler_start, window_vars >>
       \/ /\ key = "R"
          /\ capture_mode = "edit" /\ selected_item_index # -1
          /\ rename_current_selection
          /\ UNCHANGED << hud_vars, capture_mode, ruler_start, notifications, session_items,
                          selected_item_index, tree, heap, overlay_visible, main_visible >>
       \/ /\ \/ key \notin { "Shift", "E", "Escape", "Q", "Space", "H", "Delete", "R" }
             \/ /\ key \in { "Delete", "R" }
                /\ ~(capture_mode = "edit" /\ selected_item_index # -1)
          /\ UNCHANGED << hud_vars, capture_mode, ruler_start, notifications, session_items,
                          selected_item_index, tree, heap, window_vars >>

\* keyReleaseEvent with a slip: releasing Shift inverts shift_pressed
keyReleaseEvent_Toggles(key) ==
    /\ Receiving
    /\ shift_pressed' = IF key = "Shift" THEN ~shift_pressed ELSE shift_pressed
    /\ UNCHANGED << cursor_pos, corner_pos, capture_mode, ruler_start, show_help,
                    notifications, session_items, selected_item_index,
                    host_vars, window_vars, last >>

\* keyReleaseEvent
keyReleaseEvent(key) ==
    /\ Receiving
    /\ shift_pressed' = IF key = "Shift" THEN FALSE ELSE shift_pressed
    /\ UNCHANGED << cursor_pos, corner_pos, capture_mode, ruler_start, show_help,
                    notifications, session_items, selected_item_index,
                    host_vars, window_vars, last >>

\* paintEvent with a slip: the redraw drops the selection
paintEvent_DropsSelection ==
    /\ overlay_visible
    /\ notifications' = draw_notifications
    /\ selected_item_index' = -1
    /\ UNCHANGED << hud_vars, capture_mode, ruler_start, session_items,
                    host_vars, window_vars, last >>

\* paintEvent: the timer's redraw; draw_notifications is its only assignment
paintEvent ==
    /\ overlay_visible
    /\ notifications' = draw_notifications
    /\ UNCHANGED << hud_vars, capture_mode, ruler_start, session_items,
                    selected_item_index, host_vars, window_vars, last >>

\* dt seconds pass.  The 16 ms timer has fired since the last entry expired, so
\* no expired entry is still in the list.
Advance(dt) ==
    /\ notifications # <<>>
    /\ \A i \in DOMAIN notifications : notifications[i][2] > now
    /\ notifications' = [ i \in DOMAIN notifications |->
                             << notifications[i][1], notifications[i][2] - dt >> ]
    /\ UNCHANGED << hud_vars, capture_mode, ruler_start, session_items,
                    selected_item_index, host_vars, window_vars, last >>

-----------------------------------------------------------------------------
(* The overlay state machine *)

\* MainWindow.start_capture on an empty document: OverlayWindow.__init__
Init ==
    /\ cursor_pos = Pt(0, 0)
    /\ corner_pos = 3
    /\ capture_mode = "normal"
    /\ ruler_start = <<>>
    /\ shift_pressed = FALSE
    /\ show_help = TRUE
    /\ notifications = <<>>
    /\ session_items = <<>>
    /\ selected_item_index = -1
    /\ tree = <<>>
    /\ heap = <<>>
    /\ next_id = 0
    /\ overlay_visible = TRUE
    /\ main_visible = FALSE
    /\ keyboard_grabbed = FALSE
    /\ prompt = <<>>
    /\ last = <<>>

Next ==
    \/ \E pos \in Positions : mouseMoveEvent(pos)
    \/ \E button \in Buttons, pos \in Positions : mousePressEvent(button, pos)
    \/ \E key \in Keys : keyPressEvent(key)
    \/ \E key \in ReleasedKeys : keyReleaseEvent(key)
    \/ \E text \in Texts, ok \in BOOLEAN : PromptReturns(text, ok)
    \/ paintEvent
    \/ \E dt \in Steps : Advance(dt)

Spec == Init /\ [][Next]_vars

-----------------------------------------------------------------------------
(* Properties of the overlay state machine (specification Spec) *)

\* this step creates exactly one object of the given type and appends it once to
\* the host document and once to the session item list
NewItemAppended(type) ==
    /\ next_id \notin DOMAIN heap
    /\ DOMAIN heap' = DOMAIN heap \cup { next_id }
    /\ \A i \in DOMAIN heap : heap'[i] = heap[i]
    /\ heap'[next_id].type = type
    /\ tree' = Append(tree, next_id)
    /\ session_items' = Append(session_items, next_id)

NothingCreated == UNCHANGED << session_items, tree, heap, next_id >>

\* snapAxis as the specification words it
SpecSnapAxis(start, end, freeform) ==
    LET dx == Abs(end.x - start.x)
        dy == Abs(end.y - start.y)
    IN  IF freeform THEN end
        ELSE IF dx > 10 * dy THEN Pt(end.x, start.y)
        ELSE IF dy > 10 * dx THEN Pt(start.x, end.y)
        ELSE end

\* the squared Euclidean distance of two points
Dist2(p, q) == (p.x - q.x) * (p.x - q.x) + (p.y - q.y) * (p.y - q.y)

\* C1: from Normal, a right-click enters Ruler at the click without creating
\* anything, and the left-click that follows ends in Normal with exactly one
\* MeasurementItem appended to the host and to the session list, whatever the two
\* positions and shiftHeld are.
C1_RightThenLeftMakesOneMeasurement ==
    [][ /\ \A a \in Positions :
              (capture_mode = "normal" /\ mousePressEvent("Right", a))
              => (capture_mode' = "ruler" /\ ruler_start' = << a >> /\ NothingCreated)
        /\ \A p \in Positions :
              (capture_mode = "ruler" /\ mousePressEvent("Left", p))
              => (capture_mode' = "normal" /\ NewItemAppended("measurement"))
      ]_vars

\* C2: Escape or Q in Ruler creates nothing, clears the anchor, pushes "Ruler
\* Cancelled" and returns to Normal; the right-click that started the ruler created
\* nothing either, so the host document and the session list are as before it.
C2_EscapeCancelsRuler ==
    [][ /\ \A key \in { "Escape", "Q" } :
              (capture_mode = "ruler" /\ keyPressEvent(key))
              => /\ capture_mode' = "normal"
                 /\ ruler_start' = <<>>
                 /\ notifications' = Append(notifications, << "Ruler Cancelled", now + 2 >>)
                 /\ NothingCreated
        /\ \A a \in Positions :
              (capture_mode = "normal" /\ mousePressEvent("Right", a)) => NothingCreated
      ]_vars

\* a ruler has just been cancelled in a session that captured nothing
C2_Witness ==
    /\ capture_mode = "normal"
    /\ ruler_start = <<>>
    /\ notifications = << << "Ruler Cancelled", 2 >> >>
    /\ session_items = <<>>
    /\ tree = <<>>

\* C3: a left- or right-click in Ruler creates a MeasurementItem from the anchor to
\* snapAxis(anchor, click, shiftHeld), with the Euclidean distance of those two
\* end points, auto_aligned exactly when the snap moved the end point.
C3_FinishCreatesMeasurement ==
    [][ \A button \in { "Left", "Right" }, p \in Positions :
            (capture_mode = "ruler" /\ mousePressEvent(button, p))
            => LET a == ruler_start[1]
                   e == SpecSnapAxis(a, p, shift_pressed)
               IN  /\ NewItemAppended("measurement")
                   /\ heap'[next_id].x1 = a.x /\ heap'[next_id].y1 = a.y
                   /\ heap'[next_id].x2 = e.x /\ heap'[next_id].y2 = e.y
                   /\ heap'[next_id].distance = Sqrt(Dist2(a, e))
                   /\ heap'[next_id].auto_aligned = (e # p)
      ]_vars

\* C5: a ruler finish at the anchor itself is accepted: it creates a MeasurementItem
\* of distance 0 and returns to Normal, for every anchor.
C5_ZeroLengthRulerAccepted ==
    [][ \A button \in { "Left", "Right" }, p \in Positions :
            (capture_mode = "ruler" /\ ruler_start = << p >> /\ mousePressEvent(button, p))
            => /\ capture_mode' = "normal"
               /\ NewItemAppended("measurement")
               /\ heap'[next_id].distance = Sqrt(0)
      ]_vars

\* C6: a left-click in Normal creates exactly one CoordinateItem at the tracked
\* cursor position, appends it to the host document and to the end of the session
\* list, pushes the one notification "Captured: x, y" and stays in Normal.
C6_LeftClickCapturesCursor ==
    [][ \A p \in Positions :
            (capture_mode = "normal" /\ mousePressEvent("Left", p))
            => /\ NewItemAppended("coordinate")
               /\ heap'[next_id].x = cursor_pos.x
               /\ heap'[next_id].y = cursor_pos.y
               /\ notifications' = Append(notifications,
                      << "Captured: " \o ToString(cursor_pos.x) \o ", "
                                        \o ToString(cursor_pos.y), now + 2 >>)
               /\ capture_mode' = "normal"
               /\ ruler_start' = ruler_start
      ]_vars

\* the point (100, 3) has just been captured
C6_Witness ==
    /\ capture_mode = "normal"
    /\ cursor_pos = Pt(100, 3)
    /\ session_items # <<>>
    /\ heap[session_items[Len(session_items)]].type = "coordinate"
    /\ heap[session_items[Len(session_items)]].x = 100
    /\ heap[session_items[Len(session_items)]].y = 3
    /\ tree[Len(tree)] = session_items[Len(session_items)]
    /\ notifications = << << "Captured: 100, 3", 2 >> >>

-----------------------------------------------------------------------------
(* The ruler finish on chosen geometry (specification SnapSpec) *)

\* anchors of the ruler
SnapAnchors == { Pt(100, 100), Pt(50, 60), Pt(0, 0) }

\* clicks that finish the ruler: around the anchor (100, 100), dx = 100 with
\* dy = 9, 10, 11, the same with the axes exchanged, points already on an axis
\* through the anchor, the anchor itself and a long nearly horizontal ruler
SnapEnds ==
    { Pt(200, 109), Pt(200, 110), Pt(200, 111), Pt(0, 109),
      Pt(109, 200), Pt(110, 200), Pt(111, 200), Pt(91, 0),
      Pt(200, 100), Pt(100, 200), Pt(100, 100), Pt(250, 103) }

\* a ruler is open: a right-click at the anchor has been handled and its
\* notification has expired; Shift is held or not
SnapInit ==
    /\ cursor_pos \in SnapAnchors
    /\ corner_pos = 3
    /\ capture_mode = "ruler"
    /\ ruler_start = << cursor_pos >>
    /\ shift_pressed \in BOOLEAN
    /\ show_help = TRUE
    /\ notifications = <<>>
    /\ session_items = <<>>
    /\ selected_item_index = -1
    /\ tree = <<>>
    /\ heap = <<>>
    /\ next_id = 0
    /\ overlay_visible = TRUE
    /\ main_visible = FALSE
    /\ keyboard_grabbed = FALSE
    /\ prompt = <<>>
    /\ last = <<>>

SnapNext ==
    \E button \in { "Left", "Right" }, pos \in SnapEnds : mousePressEvent(button, pos)

SnapSpec == SnapInit /\ [][SnapNext]_vars

\* the end point stored in the item a step has just created
NewEnd == Pt(heap'[next_id].x2, heap'[next_id].y2)

\* C4: the end point of the MeasurementItem a ruler finish creates is the click
\* itself when Shift is held; otherwise (end.x, start.y) if dx > 10*dy, else
\* (start.x, end.y) if dy > 10*dx, else the click.  The comparison is strict:
\* dx = 100 with dy = 9 snaps to the horizontal, with dy = 10 or 11 the click is
\* kept.  Snapping the stored end point again returns it unchanged.
C4_SnapRule ==
    [][ \A button \in { "Left", "Right" }, p \in SnapEnds :
            (capture_mode = "ruler" /\ mousePressEvent(button, p) /\ next_id' # next_id)
            => LET a  == ruler_start[1]
                   dx == Abs(p.x - a.x)
                   dy == Abs(p.y - a.y)
               IN  /\ shift_pressed => NewEnd = p
                   /\ ~shift_pressed /\ dx > 10 * dy => NewEnd = Pt(p.x, a.y)
                   /\ ~shift_pressed /\ ~(dx > 10 * dy) /\ dy > 10 * dx
                          => NewEnd = Pt(a.x, p.y)
                   /\ ~shift_pressed /\ ~(dx > 10 * dy) /\ ~(dy > 10 * dx) => NewEnd = p
                   /\ ~shift_pressed /\ dx = 100 /\ dy = 9 => NewEnd = Pt(p.x, a.y)
                   /\ ~shift_pressed /\ dx = 100 /\ dy \in { 10, 11 } => NewEnd = p
                   /\ SpecSnapAxis(a, NewEnd, shift_pressed) = NewEnd
      ]_vars

\* a ruler from (100, 100) was finished at (200, 109) without Shift: the click
\* was snapped to the horizontal
C4_Witness ==
    /\ capture_mode = "normal"
    /\ ~shift_pressed
    /\ session_items = << 0 >>
    /\ heap[0].type = "measurement"
    /\ heap[0].x1 = 100 /\ heap[0].y1 = 100
    /\ last # <<>>
    /\ last[1].pos = Pt(200, 109)
    /\ heap[0].x2 = 200 /\ heap[0].y2 = 100 /\ heap[0].auto_aligned

-----------------------------------------------------------------------------
(* Edit mode on chosen sessions (specification EditSpec) *)

\* items a session may hold when Edit is entered
MaxSession == 3

\* items captured earlier in the session: two points 10 px apart, the diagonal
\* of a square drawn from (200, 200) to the screen's corner, a short slanted
\* ruler and a ruler finished at its anchor
EditPool ==
    { CoordinateItem(100, 100),
      CoordinateItem(110, 100),
      RulerItem(Pt(200, 200), Pt(0, 0), FALSE),
      RulerItem(Pt(300, 300), Pt(305, 312), FALSE),
      RulerItem(Pt(100, 120), Pt(100, 120), FALSE) }

\* clicks in Edit
HitPositions ==
    { Pt(105, 100),     \* 5 px from both points, nearer still to the diagonal
      Pt(120, 100),     \* 20 px from the first point, 10 px from the second
      Pt(100, 119),     \* 1 px from the zero-length ruler
      Pt(100, 140),     \* 20 px from the zero-length ruler
      Pt(285, 316),     \* 20 px from the inside of the slanted ruler
      Pt(310, 324),     \* on the slanted ruler's line, 13 px beyond its end
      Pt(315, 336),     \* on the slanted ruler's line, 26 px beyond its end
      Pt(500, 500) }    \* far from everything

\* the session lists: every sequence of at most MaxSession pool items
EditSessions == UNION { [ 1..n -> EditPool ] : n \in 0..MaxSession }

\* Edit has just been entered (key E) in a session that captured some items, and
\* the notifications have expired
EditInit ==
    /\ cursor_pos = Pt(100, 100)
    /\ corner_pos = 3
    /\ capture_mode = "edit"
    /\ ruler_start = <<>>
    /\ shift_pressed = FALSE
    /\ show_help = TRUE
    /\ notifications = <<>>
    /\ \E items \in EditSessions :
          /\ session_items = [ i \in 1..Len(items) |-> i - 1 ]
          /\ tree = [ i \in 1..Len(items) |-> i - 1 ]
          /\ heap = [ i \in 0..(Len(items) - 1) |-> items[i + 1] ]
          /\ next_id = Len(items)
    /\ selected_item_index = -1
    /\ overlay_visible = TRUE
    /\ main_visible = FALSE
    /\ keyboard_grabbed = FALSE
    /\ prompt = <<>>
    /\ last = <<>>

EditNext ==
    \/ \E button \in { "Left", "Right" }, pos \in HitPositions :
          mousePressEvent(button, pos)
    \/ keyPressEvent("Delete")
    \/ paintEvent
    \/ \E dt \in Steps : Advance(dt)

EditSpec == EditInit /\ [][EditNext]_vars

\* the last event handled was a left-click in Edit, and Edit is still the mode
JustHitTested ==
    /\ last # <<>>
    /\ last[1].button = "Left"
    /\ last[1].mode = "edit"
    /\ capture_mode = "edit"

\* the distance of the session item at Python index i from p
DistanceAt(p, i) == ItemDistance(p, heap[session_items[i + 1]])

\* selectNearest as the specification words it: the first index among those of
\* minimal distance, provided that distance is below the limit
SpecSelectNearest(p) ==
    LET Within == { i \in 0..(Len(session_items) - 1) :
                       Less(DistanceAt(p, i), Sqrt(limit * limit)) }
    IN  IF Within = {} THEN -1
        ELSE CHOOSE i \in Within :
                 \A j \in Within :
                     /\ ~Less(DistanceAt(p, j), DistanceAt(p, i))
                     /\ j < i => Less(DistanceAt(p, i), DistanceAt(p, j))

\* C7: after a left-click in Edit the selected index is that of the first item
\* whose distance from the click is minimal among the items at distance strictly
\* below 20, or none when there is no such item; an item at distance exactly 20 is
\* not selected and of two items at equal distance the earlier is.
C7_SelectNearest ==
    JustHitTested => selected_item_index = SpecSelectNearest(last[1].pos)

Min(a, b) == IF a < b THEN a ELSE b

\* C8: the hit-test distance from the click p to a MeasurementItem a-b is the
\* distance to the nearer end point when p projects outside the segment, and the
\* distance from p to a when a = b; in a session of that one item the click selects
\* it exactly when that distance is below 20.
C8_SegmentDistanceClamped ==
    JustHitTested =>
        \A i \in 0..(Len(session_items) - 1) :
            LET item == heap[session_items[i + 1]]
                p    == last[1].pos
            IN  item.type = "measurement" =>
                LET a   == Pt(item.x1, item.y1)
                    b   == Pt(item.x2, item.y2)
                    l2  == Dist2(a, b)
                    dot == (p.x - a.x) * (b.x - a.x) + (p.y - a.y) * (b.y - a.y)
                    near == Min(Dist2(p, a), Dist2(p, b))
                IN  /\ a = b => DistanceAt(p, i) = Sqrt(Dist2(p, a))
                    /\ (a # b /\ (dot < 0 \/ dot > l2)) => DistanceAt(p, i) = Sqrt(near)
                    /\ (Len(session_items) = 1 /\ (a = b \/ dot < 0 \/ dot > l2))
                           => (selected_item_index = 0 <=> near < limit * limit)

\* the slanted ruler alone, clicked on its line 13 px beyond its end: selected
C8_Witness ==
    /\ JustHitTested
    /\ last[1].pos = Pt(310, 324)
    /\ Len(session_items) = 1
    /\ heap[session_items[1]] = RulerItem(Pt(300, 300), Pt(305, 312), FALSE)
    /\ selected_item_index = 0

\* C9: a left-click in Edit sets the selection to what the hit test finds at the
\* click: an item within 20 px if there is one, and none, whatever was selected,
\* if every item is farther; it pushes no notification.  No click in Edit, left or
\* right, changes the session list, the host document, the ruler anchor or the mode.
C9_EditClickOnlySelects ==
    [][ \A button \in { "Left", "Right" }, p \in HitPositions :
            (capture_mode = "edit" /\ mousePressEvent(button, p))
            => /\ UNCHANGED << session_items, tree, heap, next_id, ruler_start,
                               capture_mode, notifications >>
               /\ button = "Right" => UNCHANGED selected_item_index
               /\ button = "Left" =>
                    LET n    == Len(session_items)
                        far  == Sqrt(limit * limit)
                    IN  /\ selected_item_index' \in { -1 } \cup 0..(n - 1)
                        /\ selected_item_index' # -1
                               => ~Less(far, DistanceAt(p, selected_item_index'))
                        /\ (\A i \in 0..(n - 1) : Less(far, DistanceAt(p, i)))
                               => selected_item_index' = -1
                        /\ (\E i \in 0..(n - 1) : Less(DistanceAt(p, i), far))
                               => selected_item_index' # -1
      ]_vars

\* an item was selected and a left-click far from every item cleared the selection
C9_Witness ==
    /\ JustHitTested
    /\ last[1].sel # -1
    /\ last[1].pos = Pt(500, 500)
    /\ session_items # <<>>
    /\ selected_item_index = -1
    /\ notifications = <<>>

\* C10: Delete in Edit with an item selected, the host holding the item: the host
\* no longer holds it, the session list is the old one without the selected
\* position (the others in their order), the selection is none, one notification
\* is pushed and the mode is still Edit.
C10_DeleteRemovesSelection ==
    [][ (capture_mode = "edit" /\ selected_item_index # -1 /\ keyPressEvent("Delete"))
        => LET item == session_items[selected_item_index + 1]
           IN  (\E i \in DOMAIN tree : tree[i] = item)
               => /\ \A i \in DOMAIN tree' : tree'[i] # item
                  /\ Len(tree') = Len(tree) - 1
                  /\ session_items' = RemoveAt(session_items, selected_item_index + 1)
                  /\ selected_item_index' = -1
                  /\ Len(notifications') = Len(notifications) + 1
                  /\ SubSeq(notifications', 1, Len(notifications)) = notifications
                  /\ capture_mode' = "edit"
      ]_vars

\* the second of three items has just been deleted: the first and the third remain,
\* in that order, and nothing is selected
C10_Witness ==
    /\ capture_mode = "edit"
    /\ next_id = 3
    /\ session_items = << 0, 2 >>
    /\ tree = << 0, 2 >>
    /\ selected_item_index = -1
    /\ notifications = << << "Item Deleted", 2 >> >>

-----------------------------------------------------------------------------
(* Edit mode against a host that may have lost items (specification HostSpec) *)

\* items a session holds when Edit is entered
MaxHost == 2

HostPool == { CoordinateItem(100, 100), CoordinateItem(300, 300) }

\* clicks in Edit: on either point, and far from both
HostPositions == { Pt(100, 100), Pt(300, 300), Pt(500, 500) }

\* the subsequence of s of the elements in the set keep
Keep(s, keep) == LET In(x) == x \in keep IN SelectSeq(s, In)

\* Edit has just been entered in a session that captured some items.  The host
\* document holds all of them or has lost some: MainWindow.delete_selected and
\* clear_all take items out of the tree without telling the overlay.
HostInit ==
    /\ cursor_pos = Pt(100, 100)
    /\ corner_pos = 3
    /\ capture_mode = "edit"
    /\ ruler_start = <<>>
    /\ shift_pressed = FALSE
    /\ show_help = TRUE
    /\ notifications = <<>>
    /\ \E n \in 0..MaxHost :
          \E items \in [ 1..n -> HostPool ], kept \in SUBSET (0..(n - 1)) :
              /\ session_items = [ i \in 1..n |-> i - 1 ]
              /\ tree = Keep(session_items, kept)
              /\ heap = [ i \in 0..(n - 1) |-> items[i + 1] ]
              /\ next_id = n
    /\ selected_item_index = -1
    /\ overlay_visible = TRUE
    /\ main_visible = FALSE
    /\ keyboard_grabbed = FALSE
    /\ prompt = <<>>
    /\ last = <<>>

HostNext ==
    \/ \E pos \in HostPositions : mousePressEvent("Left", pos)
    \/ \E key \in { "Delete", "R" } : keyPressEvent(key)
    \/ \E ok \in BOOLEAN : PromptReturns("n", ok)

HostSpec == HostInit /\ [][HostNext]_vars

\* the host document does not hold the selected item
HostLacksSelection ==
    /\ selected_item_index # -1
    /\ \A i \in DOMAIN tree : tree[i] # session_items[selected_item_index + 1]

\* C11: Delete in Edit on a selected item the host does not hold (its removal
\* returns false) changes neither the session list, nor the selection, nor the
\* mode, nor the notification queue, nor the host document.
C11_RejectedDeleteIsNoOp ==
    [][ (capture_mode = "edit" /\ HostLacksSelection /\ keyPressEvent("Delete"))
        => UNCHANGED << session_items, selected_item_index, capture_mode,
                        notifications, tree, heap >>
      ]_vars

\* Delete was the last key handled (no prompt was ever opened), and the item the
\* host does not hold is still selected
C11_Witness ==
    /\ capture_mode = "edit"
    /\ HostLacksSelection
    /\ last = <<>>
    /\ prompt = <<>>
    /\ ~keyboard_grabbed
    /\ notifications = <<>>

\* C12: a confirmed rename of an item the host does not hold (its rename returns
\* false) is a no-op: the item's name is unchanged and no notification is pushed.
C12_RejectedRenameIsNoOp ==
    [][ \A ok \in BOOLEAN :
            (/\ prompt # <<>>
             /\ \A i \in DOMAIN tree : tree[i] # prompt[1]
             /\ PromptReturns("n", ok))
            => /\ heap' = heap
               /\ notifications' = notifications
      ]_vars

\* C14: cancelling the rename prompt leaves the item's name, the host document,
\* the session list, the selection, the mode and the notification queue as they
\* were before R was pressed: neither opening the prompt nor cancelling it
\* changes any of them.
C14_CancelledRenameChangesNothing ==
    [][ ((capture_mode = "edit" /\ selected_item_index # -1 /\ keyPressEvent("R"))
         \/ (prompt # <<>> /\ PromptReturns("n", FALSE)))
        => /\ prompt' # prompt
           /\ UNCHANGED << heap, tree, session_items, selected_item_index,
                           capture_mode, notifications >>
      ]_vars

\* a prompt for an item the host holds has been opened and cancelled: it has
\* resolved, and the item has its first name and no notification was pushed
C14_Witness ==
    /\ prompt = <<>>
    /\ keyboard_grabbed
    /\ capture_mode = "edit"
    /\ selected_item_index # -1
    /\ ~HostLacksSelection
    /\ heap[session_items[selected_item_index + 1]].name = "Point (100, 100)"
    /\ notifications = <<>>

\* C15: while the rename prompt is open the overlay does not hold the keyboard
\* grab and handles no key or click (nothing but the prompt's own state can
\* change besides the redraw); the grab is taken again exactly when the prompt
\* resolves, confirmed or cancelled.
C15_PromptSuspendsKeyboard ==
    [][ /\ prompt # <<>> => ~keyboard_grabbed
        /\ prompt' # <<>> => ~keyboard_grabbed'
        /\ (prompt # <<>> /\ prompt' # <<>>)
               => UNCHANGED << hud_vars, capture_mode, ruler_start, session_items,
                               selected_item_index, tree, heap, last >>
        /\ (prompt # <<>> /\ prompt' = <<>>) => keyboard_grabbed'
        /\ (~keyboard_grabbed /\ keyboard_grabbed') => (prompt # <<>> /\ prompt' = <<>>)
      ]_vars

\* a first prompt was confirmed (the item is renamed and the overlay took the
\* grab), R was pressed again, and with the second prompt open the grab is released
C15_Witness ==
    /\ prompt # <<>>
    /\ ~keyboard_grabbed
    /\ capture_mode = "edit"
    /\ heap[prompt[1]].name = "n"
    /\ notifications = << << "Item Renamed", 2 >> >>

-----------------------------------------------------------------------------
(* The rename prompt, the keys and termination (specification Spec) *)

\* C13: R in Edit with an item selected opens the prompt for that item; when the
\* prompt is confirmed, whatever the text entered, the item gets that text as its
\* name, one notification is pushed, and the mode is Edit with the same selection.
C13_ConfirmedRenameRenames ==
    [][ /\ (capture_mode = "edit" /\ selected_item_index # -1 /\ keyPressEvent("R"))
           => prompt' = << session_items[selected_item_index + 1] >>
        /\ \A text \in Texts :
              (prompt # <<>> /\ PromptReturns(text, TRUE))
              => /\ heap'[prompt[1]].name = text
                 /\ Len(notifications') = Len(notifications) + 1
                 /\ capture_mode' = "edit" /\ capture_mode = "edit"
                 /\ selected_item_index' = selected_item_index
                 /\ session_items[selected_item_index + 1] = prompt[1]
      ]_vars

\* C16: Escape or Q terminates the session (overlay closed, main window shown)
\* when pressed in Normal and in no other mode; in Ruler it clears the anchor and
\* in Edit the selection, both returning to Normal with the overlay still up, and
\* in Edit without a notification.
C16_EscapeByMode ==
    [][ /\ \A key \in { "Escape", "Q" } :
              keyPressEvent(key)
              => /\ capture_mode = "normal"
                    => (~overlay_visible' /\ main_visible' /\ capture_mode' = "normal")
                 /\ capture_mode = "ruler"
                    => /\ capture_mode' = "normal" /\ ruler_start' = <<>>
                       /\ overlay_visible' /\ ~main_visible'
                 /\ capture_mode = "edit"
                    => /\ capture_mode' = "normal" /\ selected_item_index' = -1
                       /\ overlay_visible' /\ ~main_visible'
                       /\ notifications' = notifications
        /\ (overlay_visible /\ ~overlay_visible') => capture_mode = "normal"
      ]_vars

\* the session has terminated, having captured something
C16_Witness ==
    /\ ~overlay_visible
    /\ main_visible
    /\ capture_mode = "normal"
    /\ session_items # <<>>

\* C17: once the overlay has terminated it does not hold the keyboard grab,
\* whatever happened in the session.
C17_NoGrabAfterTermination == ~overlay_visible => ~keyboard_grabbed

\* C18: E pressed in Normal or Ruler clears the anchor, pushes one notification and
\* enters Edit, creating nothing; pressed in Edit it clears the selection, pushes
\* "Exited Edit Mode" and enters Normal.  An anchor exists in Ruler only, so that a
\* ruler started before Edit is not resumed: the left-click that follows in Normal
\* creates a CoordinateItem.
C18_EditToggle ==
    [][ /\ keyPressEvent("E")
           => /\ capture_mode \in { "normal", "ruler" }
                 => /\ capture_mode' = "edit"
                    /\ ruler_start' = <<>>
                    /\ Len(notifications') = Len(notifications) + 1
                    /\ SubSeq(notifications', 1, Len(notifications)) = notifications
                    /\ NothingCreated
              /\ capture_mode = "edit"
                 => /\ capture_mode' = "normal"
                    /\ selected_item_index' = -1
                    /\ notifications' =
                           Append(notifications, << "Exited Edit Mode", now + 2 >>)
                    /\ ruler_start' = <<>>
                    /\ NothingCreated
        /\ capture_mode # "ruler" => ruler_start = <<>>
        /\ capture_mode' # "ruler" => ruler_start' = <<>>
        /\ \A p \in Positions :
              (capture_mode = "normal" /\ mousePressEvent("Left", p))
              => (NewItemAppended("coordinate") /\ capture_mode' = "normal")
      ]_vars

\* Edit has just been left by E, in a session that created nothing
C18_Witness ==
    /\ capture_mode = "normal"
    /\ ruler_start = <<>>
    /\ selected_item_index = -1
    /\ session_items = <<>>
    /\ notifications = << << "Exited Edit Mode", 2 >> >>

-----------------------------------------------------------------------------
(* The display keys in every mode (specification HudSpec) *)

\* keys pressed: the display keys, and E to reach Edit
HudKeys == { "Space", "H", "Shift", "E" }

\* the one position of the clicks: they capture a point, open and finish a ruler,
\* and select the point in Edit
HudPositions == { Pt(100, 3) }

HudNext ==
    \/ \E pos \in HudPositions : mouseMoveEvent(pos)
    \/ \E button \in { "Left", "Right" }, pos \in HudPositions :
          mousePressEvent(button, pos)
    \/ \E key \in HudKeys : keyPressEvent(key)
    \/ keyReleaseEvent("Shift")
    \/ paintEvent
    \/ \E dt \in Steps : Advance(dt)

HudSpec == Init /\ [][HudNext]_vars

\* the next corner
NextCorner(c) == (c + 1) % 4

\* a step leaves alone everything but the display state
DisplayOnly ==
    UNCHANGED << capture_mode, ruler_start, session_items, selected_item_index,
                 tree, heap, next_id, notifications >>

\* C19: in every mode Space moves corner_pos to the next of its 4 values, in a
\* cycle that four presses close; H inverts show_help; Shift down sets and Shift
\* up clears shift_pressed; and none of them changes the mode, the anchor, the
\* session list, the selection, the host document or the notification queue.
C19_DisplayKeys ==
    [][ /\ keyPressEvent("Space")
           => /\ corner_pos \in 0..3
              /\ corner_pos' = NextCorner(corner_pos)
              /\ NextCorner(NextCorner(NextCorner(corner_pos'))) = corner_pos
              /\ Cardinality({ corner_pos, corner_pos', NextCorner(corner_pos'),
                               NextCorner(NextCorner(corner_pos')) }) = 4
              /\ UNCHANGED << show_help, shift_pressed >>
              /\ DisplayOnly
        /\ keyPressEvent("H")
           => /\ show_help' = ~show_help
              /\ UNCHANGED << corner_pos, shift_pressed >>
              /\ DisplayOnly
        /\ keyPressEvent("Shift")
           => /\ shift_pressed'
              /\ UNCHANGED << corner_pos, show_help >>
              /\ DisplayOnly
        /\ keyReleaseEvent("Shift")
           => /\ ~shift_pressed'
              /\ UNCHANGED << corner_pos, show_help >>
              /\ DisplayOnly
      ]_vars

\* in Edit with an item selected: the corner has wrapped around from 3 to 0, the
\* help is hidden and Shift is held
C19_Witness ==
    /\ capture_mode = "edit"
    /\ selected_item_index # -1
    /\ corner_pos = 0
    /\ ~show_help
    /\ shift_pressed
    /\ last = <<>>

-----------------------------------------------------------------------------
(* The notification queue on its own (specification NoteSpec) *)

\* entries the queue may hold before a push is held back
MaxQueue == 3

\* texts pushed
NoteTexts == { "Item Deleted", "Item Renamed" }

\* seconds between two events: less than an entry's life, and more
NoteSteps == { 1, 3 }

\* one call of add_notification
Notify(text) ==
    /\ overlay_visible
    /\ Len(notifications) < MaxQueue
    /\ notifications' = add_notification(text)
    /\ UNCHANGED << hud_vars, capture_mode, ruler_start, session_items,
                    selected_item_index, host_vars, window_vars, last >>

NoteNext ==
    \/ \E text \in NoteTexts : Notify(text)
    \/ paintEvent
    \/ \E dt \in NoteSteps : Advance(dt)

NoteSpec == Init /\ [][NoteNext]_vars

\* the positions of queue q whose entries have not expired
LiveEntries(q) == { i \in DOMAIN q : q[i][2] > now }

\* r holds exactly the entries of q that have not expired, in q's order
KeepsLive(q, r) ==
    \E f \in [ DOMAIN r -> DOMAIN q ] :
       /\ \A j, k \in DOMAIN r : j < k => f[j] < f[k]
       /\ { f[k] : k \in DOMAIN r } = LiveEntries(q)
       /\ \A k \in DOMAIN r : r[k] = q[f[k]]

\* C20: a push appends (text, now + 2); a render tick keeps exactly the entries
\* whose expiry is after now, in insertion order, and a second tick at the same
\* instant keeps all of what the first left; an entry enters the queue by a push
\* only, so that a discarded entry does not come back; and no entry outlives the
\* 2 seconds after its push.
C20_NotificationQueue ==
    [][ /\ \A text \in NoteTexts :
              Notify(text) => notifications' = Append(notifications, << text, now + 2 >>)
        /\ paintEvent
           => /\ KeepsLive(notifications, notifications')
              /\ KeepsLive(notifications', notifications')
        /\ Len(notifications') > Len(notifications)
           => \E text \in NoteTexts :
                 notifications' = Append(notifications, << text, now + 2 >>)
        /\ \A i \in DOMAIN notifications : notifications[i][2] <= now + 2
        /\ \A i, j \in DOMAIN notifications :
              i < j => notifications[i][2] <= notifications[j][2]
      ]_vars

\* the queue before a tick: the oldest entry expires at this very instant, the
\* next has a second left, the last has just been pushed
C20_Witness ==
    notifications = << << "Item Deleted", 0 >>, << "Item Renamed", 1 >>,
                       << "Item Deleted", 2 >> >>

-----------------------------------------------------------------------------
(* Successive runs of the overlay on one document (specification RunSpec) *)

\* start_capture with a slip: the new overlay takes over the session list of the
\* one before
start_capture_KeepsSession ==
    /\ main_visible
    /\ main_visible' = FALSE
    /\ overlay_visible' = TRUE
    /\ cursor_pos' = Pt(0, 0)
    /\ corner_pos' = 3
    /\ capture_mode' = "normal"
    /\ ruler_start' = <<>>
    /\ shift_pressed' = FALSE
    /\ show_help' = TRUE
    /\ notifications' = <<>>
    /\ selected_item_index' = -1
    /\ last' = <<>>
    /\ UNCHANGED << session_items, tree, heap, next_id, keyboard_grabbed, prompt >>

\* MainWindow.start_capture: the main window is hidden and a new OverlayWindow is
\* constructed and shown.  The document stays, the objects only the old overlay
\* referred to are dropped with it; the constructor neither takes nor releases
\* the keyboard grab.
start_capture ==
    /\ main_visible
    /\ main_visible' = FALSE
    /\ overlay_visible' = TRUE
    /\ cursor_pos' = Pt(0, 0)
    /\ corner_pos' = 3
    /\ capture_mode' = "normal"
    /\ ruler_start' = <<>>
    /\ shift_pressed' = FALSE
    /\ show_help' = TRUE
    /\ notifications' = <<>>
    /\ session_items' = <<>>
    /\ selected_item_index' = -1
    /\ heap' = Collect(heap, Range(tree))
    /\ last' = <<>>
    /\ UNCHANGED << tree, next_id, keyboard_grabbed, prompt >>

\* keys pressed in a run
RunKeys == { "Shift", "H", "E", "Escape", "Delete" }

\* the one position of the clicks
RunPositions == { Pt(100, 3) }

RunNext ==
    \/ start_capture
    \/ \E button \in Buttons, pos \in RunPositions : mousePressEvent(button, pos)
    \/ \E key \in RunKeys : keyPressEvent(key)
    \/ keyReleaseEvent("Shift")
    \/ paintEvent
    \/ \E dt \in Steps : Advance(dt)

RunSpec == Init /\ [][RunNext]_vars

\* the state the overlay is entered in
Entered ==
    /\ capture_mode = "normal"
    /\ session_items = <<>>
    /\ selected_item_index = -1
    /\ ruler_start = <<>>
    /\ show_help
    /\ ~shift_pressed

\* C21: every step that shows the overlay leaves it in Normal with an empty
\* session list, no selection, no anchor, the help shown and Shift not held; and
\* an entity enters the session list only in the step that creates it, so that the
\* list holds entities of the current run only.
C21_FreshOverlay ==
    [][ /\ (~overlay_visible /\ overlay_visible') => Entered'
        /\ \A i \in Range(session_items') \ Range(session_items) :
              /\ overlay_visible /\ overlay_visible'
              /\ i \notin DOMAIN heap
              /\ i \notin Range(tree)
              /\ next_id <= i /\ i < next_id'
      ]_vars

\* a second run has been entered on a document that holds what the first captured
C21_Witness ==
    /\ overlay_visible
    /\ Entered
    /\ tree # <<>>
    /\ last = <<>>
    /\ notifications = <<>>

-----------------------------------------------------------------------------
(* A session on a document that holds an entity already (specification IdentSpec) *)

\* the position of the pointer and of the clicks
IdentPositions == { Pt(100, 3) }

\* entities the document was loaded with: none, or a point at the position the
\* session captures at
IdentDocuments == { <<>>, << CoordinateItem(100, 3) >> }

\* start_capture on a document DataStore.load has read
IdentInit ==
    /\ cursor_pos = Pt(0, 0)
    /\ corner_pos = 3
    /\ capture_mode = "normal"
    /\ ruler_start = <<>>
    /\ shift_pressed = FALSE
    /\ show_help = TRUE
    /\ notifications = <<>>
    /\ session_items = <<>>
    /\ selected_item_index = -1
    /\ \E doc \in IdentDocuments :
          /\ tree = [ i \in 1..Len(doc) |-> i - 1 ]
          /\ heap = [ i \in 0..(Len(doc) - 1) |-> doc[i + 1] ]
          /\ next_id = Len(doc)
    /\ overlay_visible = TRUE
    /\ main_visible = FALSE
    /\ keyboard_grabbed = FALSE
    /\ prompt = <<>>
    /\ last = <<>>

IdentNext ==
    \/ \E pos \in IdentPositions : mouseMoveEvent(pos)
    \/ \E pos \in IdentPositions : mousePressEvent("Left", pos)
    \/ \E key \in { "E", "Delete", "R" } : keyPressEvent(key)
    \/ \E ok \in BOOLEAN : PromptReturns("n", ok)
    \/ paintEvent
    \/ \E dt \in Steps : Advance(dt)

IdentSpec == IdentInit /\ [][IdentNext]_vars

\* the entity selected in the session item list
Selected == session_items[selected_item_index + 1]

\* records r1 and r2 differ in the name at most
SameButName(r1, r2) ==
    /\ DOMAIN r1 = DOMAIN r2
    /\ \A f \in DOMAIN r1 \ { "name" } : r1[f] = r2[f]

\* C22: Delete takes out of the host tree the entity selected in the session list
\* and leaves every other entity in place and as it was; the rename prompt is
\* opened for the selected entity, and its confirmation gives the new name to that
\* entity and changes no other; no step takes another entity out of the host or
\* changes another entity.
C22_ActsByIdentity ==
    [][ /\ ( /\ keyPressEvent("Delete")
             /\ capture_mode = "edit" /\ selected_item_index # -1 )
           => /\ tree' = Keep(tree, Range(tree) \ { Selected })
              /\ \A i \in Range(tree') : heap'[i] = heap[i]
        /\ (prompt = <<>> /\ prompt' # <<>>)
           => /\ capture_mode = "edit" /\ selected_item_index # -1
              /\ prompt' = << Selected >>
        /\ PromptReturns("n", TRUE)
           => /\ heap'[prompt[1]].name = "n"
              /\ SameButName(heap'[prompt[1]], heap[prompt[1]])
              /\ \A i \in DOMAIN heap \ { prompt[1] } : heap'[i] = heap[i]
              /\ tree' = tree
        /\ \A i \in Range(tree) \ Range(tree') :
              capture_mode = "edit" /\ selected_item_index # -1 /\ i = Selected
        /\ \A i \in DOMAIN heap \cap DOMAIN heap' :
              heap'[i] # heap[i] => (prompt # <<>> /\ i = prompt[1])
      ]_vars

\* the host holds two points with the same coordinates, in an order in which the
\* session's only entity is second: that one has been renamed, the other has not
C22_Witness ==
    /\ tree = << 0, 1 >>
    /\ session_items = << 1 >>
    /\ heap[0] = CoordinateItem(100, 3)
    /\ heap[1].x = 100 /\ heap[1].y = 3
    /\ heap[1].name = "n"

-----------------------------------------------------------------------------
(* The entities under the overlay's operations (specification Spec) *)

\* C23: no step changes a field other than the name of an entity that exists
\* before and after it: the coordinates of a point and the end points, the
\* distance and the auto_aligned flag of a measurement stay as they were created.
C23_FieldsImmutable ==
    [][ \A i \in DOMAIN heap \cap DOMAIN heap' : SameButName(heap'[i], heap[i]) ]_vars

\* a measurement from (100, 3), snapped to the horizontal, has been renamed, and
\* the point captured with it has been deleted
C23_Witness ==
    /\ next_id = 2
    /\ DOMAIN heap = { 1 }
    /\ heap[1].type = "measurement"
    /\ heap[1].name = "n"
    /\ heap[1].x1 = 100 /\ heap[1].y1 = 3
    /\ heap[1].x2 = 0 /\ heap[1].y2 = 3
    /\ heap[1].auto_aligned

-----------------------------------------------------------------------------
(* The default name of a measurement (specification SnapSpec) *)

\* round(r): the integer nearest to a non-negative real (the square root of an
\* integer is never half way between two integers)
round(r) ==
    LET k == int(r)
    IN  IF 4 * r[1] >= (2 * k + 1) * (2 * k + 1) * r[2] THEN k + 1 ELSE k

\* C24: a measurement that has not been renamed is called "Measurement Npx", N
\* being its distance rounded to the nearest integer.
C24_DefaultNameRounds ==
    \A i \in DOMAIN heap :
       heap[i].type = "measurement"
       => heap[i].name = "Measurement " \o ToString(round(heap[i].distance)) \o "px"

-----------------------------------------------------------------------------
(* The render tick (specification Spec) *)

\* everything but the notification queue is left as it is
SessionUntouched ==
    UNCHANGED << cursor_pos, corner_pos, capture_mode, ruler_start, shift_pressed,
                 show_help, session_items, selected_item_index, tree, heap, next_id,
                 overlay_visible, main_visible, keyboard_grabbed, prompt >>

\* C25: a render tick leaves the mode, the anchor, the cursor position, the
\* session list, the selection, the host document and the display state as they
\* are, in every mode, and takes expired entries out of the notification queue;
\* a step that shortens the queue changes nothing else.  A tick between two input
\* events therefore hands the later event the session state the earlier one left.
C25_TickFrame ==
    [][ /\ paintEvent
           => /\ SessionUntouched
              /\ KeepsLive(notifications, notifications')
        /\ Len(notifications') < Len(notifications)
           => /\ SessionUntouched
              /\ KeepsLive(notifications, notifications')
      ]_vars

\* in Edit, with an item selected, the ticks have emptied the queue: the capture's
\* and the mode change's notifications are gone, the selection is in place
C25_Witness ==
    /\ capture_mode = "edit"
    /\ selected_item_index = 0
    /\ Len(session_items) = 2
    /\ notifications = <<>>
    /\ last # <<>>

-----------------------------------------------------------------------------
(* HistoryTreeWidget: a drop and sanitize_tree (specification DropSpec) *)

\* In this specification the variable tree holds the top-level QTreeWidgetItems
\* with their children: an item is a record of its data (the id of the model
\* object) and of the sequence of its child items.

\* items of the document
MaxNodes == 4

\* folders among them, at most
MaxFolders == 2

\* items dragged in one drop
MaxDrag == 2

FolderItem == [ type |-> "folder", name |-> "New Folder" ]

\* the invisible root item, as a drop target
Root == -1

TreeItem(id) == [ data |-> id, children |-> <<>> ]

\* isinstance(data, FolderItem)
IsFolder(id) == heap[id].type = "folder"

\* the data of all items of a forest
RECURSIVE Ids(_)
Ids(f) ==
    IF f = <<>> THEN {}
    ELSE { Head(f).data } \cup Ids(Head(f).children) \cup Ids(Tail(f))

\* the item of a forest that holds the data id
RECURSIVE ItemOf(_, _)
ItemOf(f, id) ==
    IF Head(f).data = id THEN Head(f)
    ELSE IF id \in Ids(Head(f).children) THEN ItemOf(Head(f).children, id)
    ELSE ItemOf(Tail(f), id)

\* the children of an item, or of the root
ChildrenOf(f, p) == IF p = Root THEN f ELSE ItemOf(f, p).children

\* takeChild / takeTopLevelItem: the forest without the item id
RECURSIVE Take(_, _)
Take(f, id) ==
    IF f = <<>> THEN <<>>
    ELSE IF Head(f).data = id THEN Tail(f)
    ELSE << [ Head(f) EXCEPT !.children = Take(@, id) ] >> \o Take(Tail(f), id)

RECURSIVE TakeAll(_, _)
TakeAll(f, sel) == IF sel = <<>> THEN f ELSE TakeAll(Take(f, Head(sel)), Tail(sel))

\* insertChildren(row, items) on a sequence of items; row counts from 0
InsertSeq(s, row, items) == SubSeq(s, 1, row) \o items \o SubSeq(s, row + 1, Len(s))

\* insertChildren(row, items) on the item p of the forest, or on the root
RECURSIVE InsertAt(_, _, _, _)
InsertAt(f, p, row, items) ==
    IF p = Root THEN InsertSeq(f, row, items)
    ELSE IF f = <<>> THEN <<>>
    ELSE << [ Head(f) EXCEPT !.children =
                 IF Head(f).data = p THEN InsertSeq(@, row, items)
                 ELSE InsertAt(@, p, row, items) ] >>
         \o InsertAt(Tail(f), p, row, items)

\* the dragged selections: one or more items, none inside another
Selections ==
    { sel \in UNION { [ 1..n -> Ids(tree) ] : n \in 1..MaxDrag } :
         \A i, j \in DOMAIN sel :
            i # j => sel[i] \notin Ids(<< ItemOf(tree, sel[j]) >>) }

\* QTreeWidget.dropEvent for an internal move: the dragged items are taken out and
\* inserted, in their order, under the item p at the row
SuperDrop(sel, p, row) ==
    InsertAt(TakeAll(tree, sel), p, row, [ i \in DOMAIN sel |-> ItemOf(tree, sel[i]) ])

\* _check_node with a slip: the promoted children go to the end of the parent
RECURSIVE CheckFrom_Appends(_, _)
CheckFrom_Appends(seq, i) ==
    IF i = 0 THEN seq
    ELSE LET child     == seq[i]
             offending == ~IsFolder(child.data) /\ child.children # <<>>
             checked   == IF offending THEN [ child EXCEPT !.children = <<>> ]
                          ELSE IF IsFolder(child.data)
                          THEN [ child EXCEPT
                                   !.children = CheckFrom_Appends(@, Len(@)) ]
                          ELSE child
             promoted  == IF offending THEN child.children ELSE <<>>
         IN  CheckFrom_Appends(SubSeq(seq, 1, i - 1) \o << checked >>
                                  \o SubSeq(seq, i + 1, Len(seq)) \o promoted,
                               i - 1)

\* _check_node: the loop over the children of one parent, from position i down to
\* the first.  The children of a non-folder child are taken and inserted after it;
\* a folder child is checked in turn.
RECURSIVE CheckFrom(_, _)
CheckFrom(seq, i) ==
    IF i = 0 THEN seq
    ELSE LET child     == seq[i]
             offending == ~IsFolder(child.data) /\ child.children # <<>>
             checked   == IF offending THEN [ child EXCEPT !.children = <<>> ]
                          ELSE IF IsFolder(child.data)
                          THEN [ child EXCEPT !.children = CheckFrom(@, Len(@)) ]
                          ELSE child
             promoted  == IF offending THEN child.children ELSE <<>>
         IN  CheckFrom(SubSeq(seq, 1, i - 1) \o << checked >> \o promoted
                          \o SubSeq(seq, i + 1, Len(seq)),
                       i - 1)

\* sanitize_tree: the forest it leaves
sanitize_tree(f) == CheckFrom(f, Len(f))

\* HistoryTreeWidget.dropEvent: the move, then sanitize_tree
dropEvent(sel, p, row) ==
    /\ main_visible
    /\ sel \in Selections
    /\ p \in Ids(TakeAll(tree, sel)) \cup { Root }
    /\ row \in 0..Len(ChildrenOf(TakeAll(tree, sel), p))
    /\ tree' = sanitize_tree(SuperDrop(sel, p, row))
    /\ last' = << [ drop |-> sel, on |-> p, row |-> row ] >>
    /\ UNCHANGED << cursor_pos, corner_pos, capture_mode, ruler_start, shift_pressed,
                    show_help, notifications, session_items, selected_item_index,
                    heap, next_id, window_vars >>

\* the main window shows a document of folders and points, all at the top level
\* (the folders first)
DropInit ==
    /\ cursor_pos = Pt(0, 0)
    /\ corner_pos = 3
    /\ capture_mode = "normal"
    /\ ruler_start = <<>>
    /\ shift_pressed = FALSE
    /\ show_help = TRUE
    /\ notifications = <<>>
    /\ session_items = <<>>
    /\ selected_item_index = -1
    /\ \E folders \in 1..MaxFolders :
          heap = [ i \in 0..(MaxNodes - 1) |->
                      IF i < folders THEN FolderItem ELSE CoordinateItem(100, 3) ]
    /\ tree = [ i \in 1..MaxNodes |-> TreeItem(i - 1) ]
    /\ next_id = MaxNodes
    /\ overlay_visible = FALSE
    /\ main_visible = TRUE
    /\ keyboard_grabbed = FALSE
    /\ prompt = <<>>
    /\ last = <<>>

DropNext ==
    \E sel \in Selections, p \in Ids(tree) \cup { Root }, row \in 0..MaxNodes :
       dropEvent(sel, p, row)

DropSpec == DropInit /\ [][DropNext]_vars

\* the data of the items of a forest, parents before children
RECURSIVE Preorder(_)
Preorder(f) ==
    IF f = <<>> THEN <<>>
    ELSE << Head(f).data >> \o Preorder(Head(f).children) \o Preorder(Tail(f))

\* the data of the items that stand side by side with the item id, itself included
RECURSIVE Siblings(_, _)
Siblings(f, id) ==
    IF \E i \in DOMAIN f : f[i].data = id
    THEN [ i \in DOMAIN f |-> f[i].data ]
    ELSE LET c == CHOOSE i \in DOMAIN f : id \in Ids(f[i].children)
         IN  Siblings(f[c].children, id)

\* the parent of the item id, or the root
ParentOf(f, id) ==
    IF \E p \in Ids(f) : \E i \in DOMAIN ItemOf(f, p).children :
          ItemOf(f, p).children[i].data = id
    THEN CHOOSE p \in Ids(f) : \E i \in DOMAIN ItemOf(f, p).children :
            ItemOf(f, p).children[i].data = id
    ELSE Root

\* only folders have children
OnlyFoldersOwn(f) == \A id \in Ids(f) : ~IsFolder(id) => ItemOf(f, id).children = <<>>

\* in the forest res every non-folder item that has children in the forest mid has
\* none, stays under its parent, and is followed there by those children in their
\* order
Promoted(mid, res) ==
    \A id \in Ids(mid) :
       LET kids == ItemOf(mid, id).children
           sibs == Siblings(res, id)
           k    == CHOOSE i \in DOMAIN sibs : sibs[i] = id
       IN  (~IsFolder(id) /\ kids # <<>>)
           => /\ ItemOf(res, id).children = <<>>
              /\ ParentOf(res, id) = ParentOf(mid, id)
              /\ k + Len(kids) <= Len(sibs)
              /\ \A j \in DOMAIN kids : sibs[k + j] = kids[j].data

\* C26: a drop on a tree in which only folders have children, followed by
\* sanitize_tree, leaves a tree in which only folders have children; the children
\* the drop gave to a non-folder item stand immediately after it, in their order;
\* and the tree holds the same items as before, each once.
C26_SanitizedAfterDrop ==
    [][ /\ OnlyFoldersOwn(tree) => OnlyFoldersOwn(tree')
        /\ Ids(tree') = Ids(tree)
        /\ Len(Preorder(tree')) = Cardinality(Ids(tree'))
        /\ LET d == last'[1]
           IN  dropEvent(d.drop, d.on, d.row)
               /\ Promoted(SuperDrop(d.drop, d.on, d.row), tree')
      ]_vars

\* two points (2 and 3) were dropped on the point 1, which has the folder 0 after
\* it: they stand between the two, in the order they were dropped in
C26_Witness ==
    /\ last = << [ drop |-> << 3, 2 >>, on |-> 1, row |-> 0 ] >>
    /\ ~IsFolder(1)
    /\ tree = << TreeItem(1), TreeItem(3), TreeItem(2), TreeItem(0) >>

-----------------------------------------------------------------------------
(* Invariants of the session (specification Spec) *)

\* C27: selected_item_index is -1 or the index of an entry of the session list, and
\* it is -1 outside Edit; the entry Delete and R read therefore exists.
C27_SelectionInRange ==
    /\ selected_item_index = -1
       \/ (0 <= selected_item_index /\ selected_item_index < Len(session_items))
    /\ capture_mode # "edit" => selected_item_index = -1
    /\ prompt # <<>> => (selected_item_index # -1 /\ prompt = << Selected >>)

\* the second of two session entries is selected
C27_Witness ==
    /\ capture_mode = "edit"
    /\ Len(session_items) = 2
    /\ selected_item_index = 1

\* the session list and the host document hold the same entities, each once, all
\* of them live objects created by the overlay
InStep ==
    /\ Range(session_items) \subseteq Range(tree)
    /\ Range(tree) \subseteq Range(session_items)
    /\ Cardinality(Range(session_items)) = Len(session_items)
    /\ Cardinality(Range(tree)) = Len(tree)
    /\ Range(session_items) \subseteq DOMAIN heap
    /\ Range(session_items) \subseteq 0..(next_id - 1)

\* C28: with no change of the host from outside, every entity of the session list
\* is in the host document and no entity is in the list twice, after every
\* operation; and an entity that leaves the session list (the overlay deleted it)
\* is in neither from then on: entities enter both only when they are created.
C28_SessionMatchesHost ==
    [][ /\ InStep /\ InStep'
        /\ \A i \in Range(session_items) \ Range(session_items') :
              i \notin Range(tree') /\ i \notin DOMAIN heap'
        /\ \A i \in Range(session_items') \ Range(session_items) : i = next_id
        /\ \A i \in Range(tree') \ Range(tree) : i = next_id
        /\ next_id' >= next_id
      ]_vars

\* of two captured entities the first has been deleted
C28_Witness ==
    /\ next_id = 2
    /\ session_items = << 1 >>
    /\ tree = << 1 >>
    /\ DOMAIN heap = { 1 }
    /\ capture_mode = "edit"
    /\ selected_item_index = -1

\* ruler_start is not None exactly in Ruler
AnchorInRuler == (ruler_start # <<>>) <=> (capture_mode = "ruler")

\* C29: ruler_start is set exactly when the mode is Ruler, in every state; a
\* right-click in Normal stores the position of the click and enters Ruler,
\* creating nothing; and every step that leaves Ruler leaves no anchor.
C29_AnchorIffRuler ==
    [][ /\ AnchorInRuler /\ AnchorInRuler'
        /\ \A p \in Positions :
              (capture_mode = "normal" /\ mousePressEvent("Right", p))
              => /\ capture_mode' = "ruler"
                 /\ ruler_start' = << p >>
                 /\ NothingCreated
        /\ (capture_mode = "ruler" /\ capture_mode' # "ruler") => ruler_start' = <<>>
      ]_vars

\* a ruler is open at (100, 3), the position of the right-click, while the pointer
\* was last seen at (0, 0); nothing has been created
C29_Witness ==
    /\ capture_mode = "ruler"
    /\ ruler_start = << Pt(100, 3) >>
    /\ cursor_pos = Pt(0, 0)
    /\ next_id = 0
    /\ last = << [ button |-> "Right", pos |-> Pt(100, 3),
                   mode |-> "normal", sel |-> -1 ] >>

\* C30: the CoordinateItem a left-click in Normal creates has the x and y of the
\* position of that click, whatever pointer events came before it.
C30_CaptureAtClick ==
    [][ \A p \in Positions :
           (capture_mode = "normal" /\ mousePressEvent("Left", p) /\ next_id' # next_id)
           => /\ heap'[next_id].type = "coordinate"
              /\ heap'[next_id].x = p.x
              /\ heap'[next_id].y = p.y
      ]_vars

====
